---- MODULE Spec2Model ----
(***************************************************************************)
(* A model of meteole's Forecast (src/meteole/forecast.py) and of its      *)
(* transport MeteoFranceClient (src/meteole/clients.py).                   *)
(*                                                                         *)
(* Python strings are sequences of one-character strings, so that          *)
(* str.split, str.strip and the f-strings are computed character by        *)
(* character.  None is the one-element sequence <<"None">>, which no       *)
(* Python string of the model equals.  An optional list of integers is a   *)
(* record [given, v]: given = FALSE is None.                               *)
(***************************************************************************)
EXTENDS Integers, Sequences, FiniteSets, TLC

VARIABLES
    _capabilities,  \* Forecast._capabilities: None, or the catalog built
    call,           \* the last operation called on the Forecast, its arguments
                    \* and what the service answered during it
    outcome,        \* what that call returned or raised
    requests,       \* the requests that call sent through the client, in order
    pc,             \* MeteoFranceClient.get: "idle", "loop" (at the while), "done"
    attempt,        \* get's attempt
    max_retries,    \* get's max_retries
    resp,           \* get's resp, the last response of the server
    sent,           \* how many requests this get has sent (it stays at MaxSent)
    result,         \* what get returned or raised
    _token_expired, \* MeteoFranceClient._token_expired
    _application_id \* whether MeteoFranceClient._application_id is not None

forecastVars == <<_capabilities, call, outcome, requests>>
clientVars == <<pc, attempt, max_retries, resp, sent, result, _token_expired,
                _application_id>>
vars == <<_capabilities, call, outcome, requests, pc, attempt, max_retries, resp, sent,
          result, _token_expired, _application_id>>

None == <<"None">>
NoList == [given |-> FALSE, v |-> <<>>]
List(v) == [given |-> TRUE, v |-> v]

Range(s) == {s[i] : i \in 1..Len(s)}

-----------------------------------------------------------------------------
(* Strings *)

Digits == <<"0", "1", "2", "3", "4", "5", "6", "7", "8", "9">>
IsDigit(c) == c \in {"0", "1", "2", "3", "4", "5", "6", "7", "8", "9"}
DigitVal(c) == (CHOOSE d \in 1..10 : Digits[d] = c) - 1
AllDigits(s) == \A i \in 1..Len(s) : IsDigit(s[i])

RECURSIVE NumVal(_)
NumVal(s) == IF s = <<>> THEN 0
             ELSE 10 * NumVal(SubSeq(s, 1, Len(s) - 1)) + DigitVal(s[Len(s)])

\* str.find, 1-based: the least i >= from where pat occurs in s, 0 when none.
RECURSIVE Find(_, _, _)
Find(s, pat, from) ==
    IF from + Len(pat) - 1 > Len(s) THEN 0
    ELSE IF SubSeq(s, from, from + Len(pat) - 1) = pat THEN from
    ELSE Find(s, pat, from + 1)

\* str.split(sep): the pieces between the successive, leftmost,
\* non-overlapping occurrences of sep.
RECURSIVE Split(_, _)
Split(s, sep) ==
    LET i == Find(s, sep, 1)
    IN  IF i = 0 THEN <<s>>
        ELSE <<SubSeq(s, 1, i - 1)>> \o Split(SubSeq(s, i + Len(sep), Len(s)), sep)

Strip_Nothing(s, c) == s

\* str.strip(c) for a one-character c.
RECURSIVE Strip(_, _)
Strip(s, c) ==
    IF s = <<>> THEN s
    ELSE IF s[1] = c THEN Strip(Tail(s), c)
    ELSE IF s[Len(s)] = c THEN Strip(SubSeq(s, 1, Len(s) - 1), c)
    ELSE s

Sep3 == <<"_", "_", "_">>
Zed == <<"Z">>

\* dt.datetime.strptime(run, "%Y-%m-%dT%H.%M.%SZ") does not raise: %Y is four
\* digits, every other field one or two digits within its range, the day
\* exists in that month of that year and nothing follows the Z.
IsLeap(y) == (y % 4 = 0 /\ y % 100 # 0) \/ y % 400 = 0
DaysIn(y, m) == IF m = 2 THEN (IF IsLeap(y) THEN 29 ELSE 28)
                ELSE IF m \in {4, 6, 9, 11} THEN 30 ELSE 31
\* One numeric field of one or two digits, from position i up to the
\* separator that follows it.
Width(run, i, sep) == IF Len(run) > i /\ run[i + 1] = sep THEN 1 ELSE 2
FieldOK(run, i, w, lo, hi) ==
    /\ Len(run) >= i + w - 1
    /\ AllDigits(SubSeq(run, i, i + w - 1))
    /\ NumVal(SubSeq(run, i, i + w - 1)) >= lo
    /\ NumVal(SubSeq(run, i, i + w - 1)) <= hi
SepAt(run, i, sep) == Len(run) >= i /\ run[i] = sep
strptime(run) ==
    LET im == 6
        wm == Width(run, im, "-")
        id == im + wm + 1
        wd == Width(run, id, "T")
        iH == id + wd + 1
        wH == Width(run, iH, ".")
        iM == iH + wH + 1
        wM == Width(run, iM, ".")
        iS == iM + wM + 1
        wS == Width(run, iS, "Z")
    IN  /\ run # None
        /\ Len(run) = iS + wS
        /\ AllDigits(SubSeq(run, 1, 4)) /\ NumVal(SubSeq(run, 1, 4)) >= 1
        /\ SepAt(run, 5, "-") /\ FieldOK(run, im, wm, 1, 12)
        /\ SepAt(run, id - 1, "-") /\ FieldOK(run, id, wd, 1, 31)
        /\ SepAt(run, iH - 1, "T") /\ FieldOK(run, iH, wH, 0, 23)
        /\ SepAt(run, iM - 1, ".") /\ FieldOK(run, iM, wM, 0, 59)
        /\ SepAt(run, iS - 1, ".") /\ FieldOK(run, iS, wS, 0, 59)
        /\ SepAt(run, iS + wS, "Z")
        /\ NumVal(SubSeq(run, id, id + wd - 1))
               <= DaysIn(NumVal(SubSeq(run, 1, 4)), NumVal(SubSeq(run, im, im + wm - 1)))

-----------------------------------------------------------------------------
(* The values the model draws its inputs from *)

Date1 == <<"2", "0", "2", "4", "-", "0", "1", "-", "0", "1">>
R1 == Date1 \o <<"T", "0", "0", ".", "0", "0", ".", "0", "0", "Z">>
R2 == Date1 \o <<"T", "0", "6", ".", "0", "0", ".", "0", "0", "Z">>
\* well formed, never served
R3 == Date1 \o <<"T", "1", "2", ".", "0", "0", ".", "0", "0", "Z">>
\* the format of the docstrings ("YYYY-MM-DDTHH:MM:SSZ"), which strptime rejects
RColon == Date1 \o <<"T", "0", "0", ":", "0", "0", ":", "0", "0", "Z">>
\* 30 February
RFeb30 == <<"2", "0", "2", "4", "-", "0", "2", "-", "3", "0">>
              \o <<"T", "0", "0", ".", "0", "0", ".", "0", "0", "Z">>

P1D == <<"P", "1", "D">>
PT1H == <<"P", "T", "1", "H">>

W == <<"W", "_", "_", "S">>     \* an instant indicator
P == <<"P", "_", "_", "S">>     \* a time-aggregated indicator
X == <<"X">>                    \* not an indicator of the model

INDICATORS == {W, P}
INSTANT_INDICATORS == {W}

\* f"{indicator}___{run}", then f"_{interval}" when interval is not None
CoverageIdOf(indicator, run, interval) ==
    indicator \o Sep3 \o run \o (IF interval # None THEN <<"_">> \o interval ELSE <<>>)

\* The coverage ids the service may list in its capabilities document.
ServerIds == {CoverageIdOf(W, R1, None), CoverageIdOf(W, R2, None),
              CoverageIdOf(P, R1, PT1H), CoverageIdOf(P, R2, P1D)}

\* The lists of at most MaxPartial distinct server ids in every order, and
\* the list of all of them with the runs ascending and descending.
MaxPartial == 2
Catalogs ==
    {c \in UNION {[1..n -> ServerIds] : n \in 0..MaxPartial} :
        \A i, j \in 1..Len(c) : c[i] = c[j] => i = j}
    \cup {<<CoverageIdOf(W, R1, None), CoverageIdOf(P, R1, PT1H),
            CoverageIdOf(W, R2, None), CoverageIdOf(P, R2, P1D)>>,
          <<CoverageIdOf(P, R2, P1D), CoverageIdOf(W, R2, None),
            CoverageIdOf(P, R1, PT1H), CoverageIdOf(W, R1, None)>>}

\* What BaseClient.get does with one request, as seen by the Forecast: it
\* returns the response, or raises one of the errors of clients.py.
MissingDataError == "MissingDataError"
GenericMeteofranceApiError == "GenericMeteofranceApiError"
ClientErrors == {MissingDataError, GenericMeteofranceApiError}
\* An answer of the service to one request: the error the client raises
\* ("" when it returns the response) and the decoded body.
Answer(body) == [error |-> "", body |-> body]
Failure(e) == [error |-> e, body |-> <<>>]
Failures == {Failure(e) : e \in ClientErrors}
NoAnswer == Failure("unused")

Ok(v) == [ok |-> TRUE, value |-> v]
Raise(e) == [ok |-> FALSE, error |-> e]

-----------------------------------------------------------------------------
(* Forecast.capabilities and Forecast._get_coverage_id *)

\* One row of the capabilities DataFrame: the id and the three columns
\* derived from it.  A subscript out of range raises IndexError.
CapabilityRow(coverage_id) ==
    LET parts == Split(coverage_id, Sep3)
        zparts == Split(parts[2], Zed)
    IN  [id        |-> coverage_id,
         indicator |-> parts[1],
         run       |-> zparts[1] \o Zed,
         interval  |-> Strip(zparts[2], "_")]

RowBuilds(coverage_id) ==
    /\ Len(Split(coverage_id, Sep3)) >= 2
    /\ Len(Split(Split(coverage_id, Sep3)[2], Zed)) >= 2

\* answer: what the service answers to GetCapabilities, the list of coverage
\* ids of its document or the error the client raises.
\* A document without coverage summaries gives a DataFrame without columns,
\* and df_capabilities["id"] raises KeyError.
_build_capabilities(answer) ==
    LET ids == answer.body
    IN  IF answer.error # "" THEN Raise(answer.error)
        ELSE IF ids = <<>> THEN Raise("KeyError")
        ELSE IF \E i \in 1..Len(ids) : ~RowBuilds(ids[i]) THEN Raise("IndexError")
        ELSE Ok([i \in 1..Len(ids) |-> CapabilityRow(ids[i])])

\* The answers the service may give to GetCapabilities.
CapAnswers == {Answer(c) : c \in Catalogs} \cup Failures

\* self._capabilities: None until the catalog is built.
NotBuilt == [built |-> FALSE, rows |-> <<>>]
Built(rows) == [built |-> TRUE, rows |-> rows]

CapabilitiesRequest == [kind |-> "GetCapabilities"]

capabilities_Uncached(cache, answer) ==
    LET built == _build_capabilities(answer)
    IN  [res   |-> built,
         cache |-> IF built.ok THEN Built(built.value) ELSE NotBuilt,
         reqs  |-> <<CapabilitiesRequest>>]

\* The capabilities property: the cached catalog, or the catalog built from
\* the service's answer and then cached.  [res, cache, reqs].
capabilities(cache, answer) ==
    IF cache.built THEN [res |-> Ok(cache.rows), cache |-> cache, reqs |-> <<>>]
    ELSE LET built == _build_capabilities(answer)
         IN  [res   |-> built,
              cache |-> IF built.ok THEN Built(built.value) ELSE NotBuilt,
              reqs  |-> <<CapabilitiesRequest>>]

\* Series.unique().tolist(): the values in order of first appearance.
RECURSIVE Unique(_)
Unique(s) ==
    IF s = <<>> THEN <<>>
    ELSE LET init == Unique(SubSeq(s, 1, Len(s) - 1))
         IN  IF s[Len(s)] \in Range(init) THEN init ELSE Append(init, s[Len(s)])

RowsOf(caps, indicator) == SelectSeq(caps, LAMBDA r : r.indicator = indicator)

\* run = capabilities.iloc[0]["run"]
DefaultRun(rows) == rows[1].run

DefaultInterval_PT1H == PT1H

\* interval = "P1D"
DefaultInterval == P1D

\* Lines 253-260: the error the run raises, "" when it passes.
RunCheck(run, valid_runs) ==
    IF ~strptime(run) THEN "InvalidRunFormatError"
    ELSE IF run \notin Range(valid_runs) THEN "InvalidRunError"
    ELSE ""

IntervalCheck_NoInstantRule(indicator, interval, valid_intervals) ==
    IF interval # None /\ interval \notin Range(valid_intervals)
    THEN "InvalidIntervalError" ELSE ""

\* Lines 265-284: the error the interval raises, "" when it passes.
IntervalCheck(indicator, interval, valid_intervals) ==
    IF indicator \in INSTANT_INDICATORS
    THEN (IF interval = None THEN "" ELSE "UnexpectedIntervalError")
    ELSE (IF interval # None /\ interval \notin Range(valid_intervals)
          THEN "InvalidIntervalError" ELSE "")

\* Lines 265-276: the interval that goes into the id.
IntervalUsed(indicator, interval) ==
    IF indicator \notin INSTANT_INDICATORS /\ interval = None
    THEN DefaultInterval ELSE interval

\* _get_coverage_id once self.capabilities has been read.
_get_coverage_id(caps, indicator, run, interval) ==
    LET rows == RowsOf(caps, indicator)
        run1 == IF run = None THEN DefaultRun(rows) ELSE run
        valid_runs == Unique([i \in 1..Len(rows) |-> rows[i].run])
        valid_intervals == Unique([i \in 1..Len(rows) |-> rows[i].interval])
    IN  IF indicator \notin INDICATORS THEN Raise("UnknownIndicatorError")
        ELSE IF run = None /\ rows = <<>> THEN Raise("IndexError")
        ELSE IF RunCheck(run1, valid_runs) # "" THEN Raise(RunCheck(run1, valid_runs))
        ELSE IF IntervalCheck(indicator, interval, valid_intervals) # ""
             THEN Raise(IntervalCheck(indicator, interval, valid_intervals))
        ELSE Ok(CoverageIdOf(indicator, run1, IntervalUsed(indicator, interval)))

\* The whole call: the capabilities are read first (line 244).  c is what
\* reading them gave.
Resolve(c, indicator, run, interval) ==
    [res   |-> IF c.res.ok THEN _get_coverage_id(c.res.value, indicator, run, interval)
               ELSE c.res,
     cache |-> c.cache,
     reqs  |-> c.reqs]

-----------------------------------------------------------------------------
(* Forecast.get_coverage_description *)

DescribeRequest(coverage_id) == [kind |-> "DescribeCoverage", coverageid |-> coverage_id]

\* int(time / 3600) for the time coefficients, which are seconds
HoursOf(seconds) == [i \in 1..Len(seconds) |-> seconds[i] \div 3600]

get_coverage_description_Retyped(answer) ==
    IF answer.error # "" THEN Raise(GenericMeteofranceApiError)
    ELSE Ok([forecast_horizons |-> HoursOf(answer.body.time),
             heights           |-> answer.body.height,
             pressures         |-> answer.body.pressure])

\* answer: what the service answers to DescribeCoverage, the coefficients of
\* the time, height and pressure axes (<<>> for an axis the description does
\* not have), or the error the client raises.
get_coverage_description(answer) ==
    IF answer.error # "" THEN Raise(answer.error)
    ELSE Ok([forecast_horizons |-> HoursOf(answer.body.time),
             heights           |-> answer.body.height,
             pressures         |-> answer.body.pressure])

-----------------------------------------------------------------------------
(* Forecast._raise_if_invalid_or_fetch_default *)

NoConstraint == -1

FirstInvalid_Never(inputs, availables) == 0

\* The first element of inputs that is not available, as an index; 0 when
\* every element is available.
FirstInvalid(inputs, availables) ==
    IF \A i \in 1..Len(inputs) : inputs[i] \in Range(availables) THEN 0
    ELSE CHOOSE i \in 1..Len(inputs) :
            /\ inputs[i] \notin Range(availables)
            /\ \A j \in 1..(i - 1) : inputs[j] \in Range(availables)

\* availables[:1] or [-1]
FetchDefault(availables) ==
    IF availables # <<>> THEN <<availables[1]>> ELSE <<NoConstraint>>

_raise_if_invalid_or_fetch_default(param_name, inputs, availables) ==
    IF inputs.given /\ inputs.v # <<>>
    THEN (IF FirstInvalid(inputs.v, availables) # 0
          THEN Raise("InvalidAxisValueError:" \o param_name)
          ELSE Ok(inputs.v))
    ELSE Ok(FetchDefault(availables))

-----------------------------------------------------------------------------
(* Forecast._get_coverage_file and Forecast._get_data_single_forecast *)

FRANCE_METRO_LATITUDES == <<"41.33356", "51.0889">>
FRANCE_METRO_LONGITUDES == <<"-5.1413", "9.5602">>

\* The subset of a GetCoverage request: pressure(p) and height(h) when they
\* are not None, then time(seconds), lat(min,max), long(min,max).
\* Absent stands for a height or a pressure that is None: no clause.
Absent == -2
RasterRequest(coverage_id, height, pressure, forecast_horizon_in_seconds) ==
    [kind       |-> "GetCoverage",
     coverageid |-> coverage_id,
     pressure   |-> pressure,
     height     |-> height,
     time       |-> forecast_horizon_in_seconds,
     lat        |-> FRANCE_METRO_LATITUDES,
     long       |-> FRANCE_METRO_LONGITUDES]

Unknown == <<"u", "n", "k", "n", "o", "w", "n">>
Upper == <<"D", "H", "P", "S", "T", "W", "X", "Z">>
Lower == <<"d", "h", "p", "s", "t", "w", "x", "z">>
ToLower(c) == IF \E i \in 1..Len(Upper) : Upper[i] = c
              THEN Lower[CHOOSE i \in 1..Len(Upper) : Upper[i] = c] ELSE c

RECURSIVE IntToStr(_)
IntToStr(n) == IF n < 10 THEN <<Digits[n + 1]>>
               ELSE IntToStr(n \div 10) \o <<Digits[(n % 10) + 1]>>

\* "".join([word[0] for word in coverage_id.split("__")[0].split("_")]).lower()
Initials(coverage_id) ==
    LET words == Split(Split(coverage_id, <<"_", "_">>)[1], <<"_">>)
    IN  [i \in 1..Len(words) |-> ToLower(words[i][1])]
InitialsExist(coverage_id) ==
    \A w \in Range(Split(Split(coverage_id, <<"_", "_">>)[1], <<"_">>)) : w # <<>>

\* re.sub(r"\d.*", "", indicator_column)
BeforeFirstDigit(name) ==
    IF \E i \in 1..Len(name) : IsDigit(name[i])
    THEN SubSeq(name, 1, (CHOOSE i \in 1..Len(name) :
                            /\ IsDigit(name[i])
                            /\ \A j \in 1..(i - 1) : ~IsDigit(name[j])) - 1)
    ELSE name

\* The run the decoded file carries in its "time" column: the run of the
\* coverage that was requested.  Its "step" column is the horizon requested.
RunOfData(coverage_id) ==
    IF RowBuilds(coverage_id) THEN CapabilityRow(coverage_id).run ELSE <<>>

\* One fetch.  data is what the service answers to GetCoverage and the
\* decoder makes of it: the grid cells (one row each), the columns outside
\* the known ones, and the level column ("heightAboveGround", "isobaricInhPa"
\* or "") with its value.  picked is the column set.pop() returns.  A row of
\* the table is a grid cell; measures names its measurement columns.
_get_data_single_forecast(coverage_id, forecast_horizon, pressure, height, data, picked) ==
    IF data.error # "" THEN Raise(data.error)
    ELSE IF data.body.var = {} THEN Raise("KeyError")
    ELSE IF picked = Unknown /\ ~InitialsExist(coverage_id) THEN Raise("IndexError")
    ELSE
      LET d == data.body
          run == RunOfData(coverage_id)
          base_name == IF picked = Unknown THEN Initials(coverage_id)
                       ELSE BeforeFirstDigit(picked)
          level == IF d.level = "heightAboveGround" /\ height # Absent THEN height
                   ELSE IF d.level = "isobaricInhPa" /\ pressure # Absent THEN pressure
                   ELSE d.value
          suffix == IF d.level = "heightAboveGround"
                        THEN <<"_">> \o IntToStr(level) \o <<"m">>
                    ELSE IF d.level = "isobaricInhPa"
                        THEN <<"_">> \o IntToStr(level) \o <<"h", "p", "a">>
                    ELSE <<>>
      IN  Ok([i \in 1..Len(d.cells) |->
                [latitude         |-> d.cells[i][1],
                 longitude        |-> d.cells[i][2],
                 run              |-> run,
                 forecast_horizon |-> forecast_horizon,
                 measures         |-> <<base_name \o suffix>>]])

-----------------------------------------------------------------------------
(* Forecast.get_coverage *)

\* height if height != -1 else None
OrAbsent(v) == IF v # NoConstraint THEN v ELSE Absent

Combo_HeightOutermost(k, forecast_horizons, pressures, heights) ==
    [forecast_horizon |-> forecast_horizons[((k - 1) % Len(forecast_horizons)) + 1],
     pressure         |-> pressures[(((k - 1) \div Len(forecast_horizons)) % Len(pressures)) + 1],
     height           |-> heights[((k - 1) \div (Len(forecast_horizons) * Len(pressures))) + 1]]

\* The k-th element of [... for forecast_horizon in forecast_horizons
\*                          for pressure in pressures for height in heights]
Combo(k, forecast_horizons, pressures, heights) ==
    [forecast_horizon |-> forecast_horizons[((k - 1) \div (Len(pressures) * Len(heights))) + 1],
     pressure         |-> pressures[(((k - 1) \div Len(heights)) % Len(pressures)) + 1],
     height           |-> heights[((k - 1) % Len(heights)) + 1]]
Combos(forecast_horizons, pressures, heights) ==
    [k \in 1..(Len(forecast_horizons) * Len(pressures) * Len(heights)) |->
        Combo(k, forecast_horizons, pressures, heights)]

RECURSIVE Concat(_)
Concat(tables) == IF tables = <<>> THEN <<>> ELSE Head(tables) \o Concat(Tail(tables))

FetchRequest(coverage_id, combo) ==
    RasterRequest(coverage_id, OrAbsent(combo.height), OrAbsent(combo.pressure),
                  combo.forecast_horizon * 3600)

\* Lines 159-181, for a coverage id: the description, the three validations,
\* one fetch per combination and the concatenation.  The first fetch that
\* raises ends the call.  [res, reqs].
CoverageOfId(coverage_id, heights, pressures, forecast_horizons, axes, data, picked) ==
    LET axis == get_coverage_description(axes)
        hs == _raise_if_invalid_or_fetch_default("heights", heights, axis.value.heights)
        ps == _raise_if_invalid_or_fetch_default("pressures", pressures, axis.value.pressures)
        fs == _raise_if_invalid_or_fetch_default("forecast_horizons", forecast_horizons,
                                                 axis.value.forecast_horizons)
        combos == Combos(fs.value, ps.value, hs.value)
        one == _get_data_single_forecast(coverage_id, combos[1].forecast_horizon,
                   OrAbsent(combos[1].pressure), OrAbsent(combos[1].height), data, picked)
        described == <<DescribeRequest(coverage_id)>>
    IN  IF ~axis.ok THEN [res |-> axis, reqs |-> described]
        ELSE IF ~hs.ok THEN [res |-> hs, reqs |-> described]
        ELSE IF ~ps.ok THEN [res |-> ps, reqs |-> described]
        ELSE IF ~fs.ok THEN [res |-> fs, reqs |-> described]
        ELSE IF ~one.ok
             THEN [res |-> one, reqs |-> described \o <<FetchRequest(coverage_id, combos[1])>>]
        ELSE [res  |-> Ok(Concat([k \in 1..Len(combos) |->
                          _get_data_single_forecast(coverage_id, combos[k].forecast_horizon,
                              OrAbsent(combos[k].pressure), OrAbsent(combos[k].height),
                              data, picked).value])),
              reqs |-> described \o [k \in 1..Len(combos) |-> FetchRequest(coverage_id, combos[k])]]

Truthy(str) == str # None /\ str # <<>>

\* The whole call.  c is what reading self.capabilities gives, read only
\* when an indicator is given.  [res, cache, reqs].
get_coverage(cache, c, a, env) ==
    IF Truthy(a.indicator) = Truthy(a.coverage_id)
    THEN [res |-> Raise("AmbiguousTargetError"), cache |-> cache, reqs |-> <<>>]
    ELSE
      LET resolved == IF Truthy(a.indicator)
                      THEN Resolve(c, a.indicator, a.run, a.interval)
                      ELSE [res |-> Ok(a.coverage_id), cache |-> cache, reqs |-> <<>>]
          got == CoverageOfId(resolved.res.value, a.heights, a.pressures,
                              a.forecast_horizons, env.axes, env.data, env.picked)
      IN  IF ~resolved.res.ok THEN resolved
          ELSE [res |-> got.res, cache |-> resolved.cache, reqs |-> resolved.reqs \o got.reqs]

-----------------------------------------------------------------------------
(* Forecast.get_forecast_horizons, find_common_forecast_horizons and
   validate_forecast_horizons *)

\* The index of the first outcome that raised, 0 when none did.
FirstRaise(outs) ==
    IF \A i \in 1..Len(outs) : outs[i].ok THEN 0
    ELSE CHOOSE i \in 1..Len(outs) : ~outs[i].ok /\ \A j \in 1..(i - 1) : outs[j].ok

\* world: what the service answers about each coverage, [hours, cells]: the
\* horizons by indicator and run, in the order (W, R1), (W, R2), (P, R1),
\* (P, R2), and the grid cells of P's raster (<<>>: the raster is missing).
\* W has the heights 2 and 10 and the grid cells Cell1 and Cell2.
Cell1 == <<45, 2>>
Cell2 == <<46, 2>>
T2m == <<"t", "2", "m">>
DataAtHeight == Answer([cells |-> <<Cell1, Cell2>>, var |-> {Unknown},
                        level |-> "heightAboveGround", value |-> 2])
DataAtSurface == Answer([cells |-> <<Cell1>>, var |-> {T2m}, level |-> "", value |-> 0])
\* A decoded file with two columns outside the known ones, and one with none.
R2m == <<"r", "2">>
DataTwoColumns == Answer([cells |-> <<Cell1>>, var |-> {T2m, R2m}, level |-> "", value |-> 0])
DataNoColumn == Answer([cells |-> <<Cell1>>, var |-> {}, level |-> "", value |-> 0])
HoursIn(world, row) ==
    world.hours[(IF row.indicator = W THEN 0 ELSE 2) + (IF row.run = R1 THEN 1 ELSE 2)]
SecondsOf(hours) == [i \in 1..Len(hours) |-> hours[i] * 3600]
\* The [axes, data, picked] of get_coverage for one coverage id.
AnswersAbout(coverage_id, world) ==
    LET row == CapabilityRow(coverage_id)
    IN  IF row.indicator = W
        THEN [axes |-> Answer([time     |-> SecondsOf(HoursIn(world, row)),
                               height   |-> <<2, 10>>,
                               pressure |-> <<>>]),
              data |-> DataAtHeight,
              picked |-> Unknown]
        ELSE [axes |-> Answer([time     |-> SecondsOf(HoursIn(world, row)),
                               height   |-> <<>>,
                               pressure |-> <<>>]),
              data |-> IF world.cells = <<>> THEN Failure(MissingDataError)
                       ELSE Answer([cells |-> world.cells, var |-> {T2m},
                                    level |-> "", value |-> 0]),
              picked |-> T2m]

\* One description request per id, in order, up to the first that raises.
\* [res, reqs].
get_forecast_horizons(coverage_ids, world) ==
    LET outs == [i \in 1..Len(coverage_ids) |->
                    get_coverage_description(AnswersAbout(coverage_ids[i], world).axes)]
        k == FirstRaise(outs)
    IN  [res  |-> IF k # 0 THEN outs[k]
                  ELSE Ok([i \in 1..Len(outs) |-> outs[i].value.forecast_horizons]),
         reqs |-> [i \in 1..(IF k # 0 THEN k ELSE Len(outs)) |->
                      DescribeRequest(coverage_ids[i])]]

Sorted_AsGiven(s) == s

\* sorted(list)
RECURSIVE Sorted(_)
Sorted(s) ==
    IF s = <<>> THEN <<>>
    ELSE LET m == CHOOSE i \in 1..Len(s) : \A j \in 1..Len(s) : s[i] <= s[j]
         IN  <<s[m]>> \o Sorted(SubSeq(s, 1, m - 1) \o SubSeq(s, m + 1, Len(s)))

\* Lines 674-676: the first list, filtered by each of the next ones in turn.
RECURSIVE Common(_)
Common(times) ==
    IF Len(times) = 1 THEN times[1]
    ELSE SelectSeq(Common(SubSeq(times, 1, Len(times) - 1)),
                   LAMBDA t : t \in Range(times[Len(times)]))

\* indicator_forecast_horizons[0] raises IndexError on an empty list of ids.
find_common_forecast_horizons(list_coverage_id, world) ==
    LET got == get_forecast_horizons(list_coverage_id, world)
    IN  IF ~got.res.ok THEN got
        ELSE IF got.res.value = <<>> THEN [res |-> Raise("IndexError"), reqs |-> got.reqs]
        ELSE [res |-> Ok(Sorted(Common(got.res.value))), reqs |-> got.reqs]

Contains_Any(times, forecast_horizons) ==
    \E h \in Range(forecast_horizons) : h \in Range(times)

\* set(forecast_horizons).issubset(times)
Contains(times, forecast_horizons) ==
    \A h \in Range(forecast_horizons) : h \in Range(times)

\* Lines 695-699: the ids whose horizons do not contain the requested ones.
RECURSIVE InvalidIds(_, _, _)
InvalidIds(coverage_ids, times, forecast_horizons) ==
    IF coverage_ids = <<>> THEN <<>>
    ELSE (IF Contains(Head(times), forecast_horizons) THEN <<>> ELSE <<Head(coverage_ids)>>)
             \o InvalidIds(Tail(coverage_ids), Tail(times), forecast_horizons)

validate_forecast_horizons(coverage_ids, forecast_horizons, world) ==
    LET got == get_forecast_horizons(coverage_ids, world)
    IN  IF ~got.res.ok THEN got
        ELSE [res  |-> Ok(InvalidIds(coverage_ids, got.res.value, forecast_horizons)),
              reqs |-> got.reqs]

-----------------------------------------------------------------------------
(* pd.merge(left, right, on=["latitude", "longitude", "run",
   "forecast_horizon"], how="inner", validate="one_to_one") *)

MergeKey(row) == <<row.latitude, row.longitude, row.run, row.forecast_horizon>>
UniqueKeys(table) ==
    \A i, j \in 1..Len(table) : MergeKey(table[i]) = MergeKey(table[j]) => i = j
ColumnsOf(table) == UNION {Range(table[i].measures) : i \in 1..Len(table)}
\* A measurement column of both tables gets the suffix _x on the left and
\* _y on the right.
Suffixed(measures, overlap, suffix) ==
    [i \in 1..Len(measures) |->
        IF measures[i] \in overlap THEN measures[i] \o suffix ELSE measures[i]]

\* validate raises MergeError when the keys are not unique in both tables;
\* the inner join keeps the rows of left, in order, whose key is in right.
merge(left, right) ==
    IF ~UniqueKeys(left) \/ ~UniqueKeys(right) THEN Raise("MergeError")
    ELSE
      LET overlap == ColumnsOf(left) \cap ColumnsOf(right)
          Match(row) == {j \in 1..Len(right) : MergeKey(right[j]) = MergeKey(row)}
          kept == SelectSeq(left, LAMBDA row : Match(row) # {})
      IN  Ok([i \in 1..Len(kept) |->
                [latitude         |-> kept[i].latitude,
                 longitude        |-> kept[i].longitude,
                 run              |-> kept[i].run,
                 forecast_horizon |-> kept[i].forecast_horizon,
                 measures         |->
                     Suffixed(kept[i].measures, overlap, <<"_", "x">>)
                         \o Suffixed(right[CHOOSE j \in Match(kept[i]) : TRUE].measures,
                                     overlap, <<"_", "y">>)]])

\* functools.reduce(merge, coverages): TypeError on an empty list, the table
\* itself when there is only one.
RECURSIVE reduce(_)
reduce(coverages) ==
    IF coverages = <<>> THEN Raise("TypeError")
    ELSE IF Len(coverages) = 1 THEN Ok(coverages[1])
    ELSE LET left == reduce(SubSeq(coverages, 1, Len(coverages) - 1))
         IN  IF ~left.ok THEN left ELSE merge(left.value, coverages[Len(coverages)])

-----------------------------------------------------------------------------
(* Forecast.get_combined_coverage *)

RaiseFor(e, coverage_ids) == [ok |-> FALSE, error |-> e, coverage_ids |-> coverage_ids]

ArgumentCheck_LengthsFirst(a) ==
    IF a.heights.given /\ Len(a.heights.v) # Len(a.indicator_names)
        THEN "LengthMismatchError"
    ELSE IF a.pressures.given /\ Len(a.pressures.v) # Len(a.indicator_names)
        THEN "LengthMismatchError"
    ELSE IF a.intervals.given /\ a.intervals.v # <<>>
                /\ Len(a.intervals.v) # Len(a.indicator_names)
        THEN "LengthMismatchError"
    ELSE IF Len(a.runs) # Cardinality(Range(a.runs)) THEN "DuplicateRunError"
    ELSE ""

\* Lines 573-592: the error the arguments raise, "" when they pass.
ArgumentCheck(a) ==
    IF Len(a.runs) # Cardinality(Range(a.runs)) THEN "DuplicateRunError"
    ELSE IF a.heights.given /\ Len(a.heights.v) # Len(a.indicator_names)
        THEN "LengthMismatchError"
    ELSE IF a.pressures.given /\ Len(a.pressures.v) # Len(a.indicator_names)
        THEN "LengthMismatchError"
    ELSE IF a.intervals.given /\ a.intervals.v # <<>>
                /\ Len(a.intervals.v) # Len(a.indicator_names)
        THEN "LengthMismatchError"
    ELSE ""

\* heights[i] if heights != [] else None; the same for pressures
LevelAt(levels, i) == IF levels.given /\ levels.v # <<>> THEN levels.v[i] ELSE Absent
\* intervals[i] if intervals else None
IntervalAt(intervals, i) ==
    IF intervals.given /\ intervals.v # <<>> THEN intervals.v[i] ELSE None

DefaultHorizons_Last(common) == <<common[Len(common)]>>

\* [self.find_common_forecast_horizons(list_coverage_id)[0]]
DefaultHorizons(common) == <<common[1]>>

\* What the loop of lines 596-608 has reached: res (an error ends the call),
\* the catalog cache, the requests sent, the (coverage_id, height, pressure)
\* of each run so far and forecast_horizons.
Reached(res, cache, reqs, targets, forecast_horizons) ==
    [res |-> res, cache |-> cache, reqs |-> reqs, targets |-> targets,
     forecast_horizons |-> forecast_horizons]
StopRun(prev, c, res, reqs) ==
    Reached(res, c.cache, prev.reqs \o reqs, prev.targets, prev.forecast_horizons)

\* Lines 605-608: forecast_horizons was None, common is what
\* find_common_forecast_horizons gave for the ids of this run.
WithDefault(prev, c, ids, common) ==
    IF ~common.res.ok THEN StopRun(prev, c, common.res, c.reqs \o common.reqs)
    ELSE IF common.res.value = <<>>
        THEN StopRun(prev, c, Raise("IndexError"), c.reqs \o common.reqs)
    ELSE Reached(Ok(None), c.cache, prev.reqs \o c.reqs \o common.reqs,
                 Append(prev.targets, ids), List(DefaultHorizons(common.res.value)))

\* Lines 599-608: outs is what _get_coverage_id gave for each indicator.
TargetsOf(outs, a) ==
    [i \in 1..Len(outs) |-> [coverage_id |-> outs[i].value,
                             height      |-> LevelAt(a.heights, i),
                             pressure    |-> LevelAt(a.pressures, i)]]
WithIds(prev, c, outs, a, world) ==
    IF FirstRaise(outs) # 0 THEN StopRun(prev, c, outs[FirstRaise(outs)], c.reqs)
    ELSE IF prev.forecast_horizons.given
        THEN Reached(Ok(None), c.cache, prev.reqs \o c.reqs,
                     Append(prev.targets, TargetsOf(outs, a)), prev.forecast_horizons)
    ELSE WithDefault(prev, c, TargetsOf(outs, a),
             find_common_forecast_horizons([i \in 1..Len(outs) |-> outs[i].value], world))

\* c is what reading self.capabilities gave in the first _get_coverage_id of
\* the run; the next ones find it cached.
ResolveIds(prev, c, run, a, world) ==
    IF ~c.res.ok THEN StopRun(prev, c, c.res, c.reqs)
    ELSE WithIds(prev, c,
             [i \in 1..Len(a.indicator_names) |->
                 _get_coverage_id(c.res.value, a.indicator_names[i], run,
                                  IntervalAt(a.intervals, i))],
             a, world)

\* One turn of the loop over runs, after the turns that gave prev.
ResolveRun(prev, run, answer, a, world) ==
    IF ~prev.res.ok THEN prev
    ELSE IF a.indicator_names = <<>>
        THEN WithIds(prev, [res |-> Ok(<<>>), cache |-> prev.cache, reqs |-> <<>>],
                     <<>>, a, world)
    ELSE ResolveIds(prev, capabilities(prev.cache, answer), run, a, world)

\* Lines 596-608 for the first n runs.
RECURSIVE ResolveRuns(_, _, _, _, _)
ResolveRuns(n, cache, answer, a, world) ==
    IF n = 0 THEN Reached(Ok(None), cache, <<>>, <<>>, a.forecast_horizons)
    ELSE ResolveRun(ResolveRuns(n - 1, cache, answer, a, world), a.runs[n], answer, a, world)

\* [height] if height is not None else []
ListOf(level) == IF level # Absent THEN List(<<level>>) ELSE List(<<>>)

\* Lines 621-628: get_coverage of one (coverage_id, height, pressure).
CoverageWith(target, forecast_horizons, about) ==
    CoverageOfId(target.coverage_id, ListOf(target.height), ListOf(target.pressure),
                 forecast_horizons, about.axes, about.data, about.picked)
CoverageOfTarget(target, forecast_horizons, world) ==
    CoverageWith(target, forecast_horizons, AnswersAbout(target.coverage_id, world))

\* What the loop of lines 619-640 has reached: the requests sent, the tables
\* get_coverage returned by run, and the joined table of each run.
Fetched(res, reqs, coverages, joined) ==
    [res |-> res, reqs |-> reqs, coverages |-> coverages, joined |-> joined]

\* Lines 631-640: coverages are the tables of the run, merged their join.
Joined(prev, reqs, coverages, merged) ==
    IF ~merged.ok
    THEN Fetched(merged, prev.reqs \o reqs, Append(prev.coverages, coverages), prev.joined)
    ELSE Fetched(Ok(None), prev.reqs \o reqs, Append(prev.coverages, coverages),
                 Append(prev.joined, merged.value))

\* Lines 620-640: got is what get_coverage gave for each target of the run,
\* k the first that raised.
JoinRun(prev, got, k) ==
    IF k # 0
    THEN Fetched(got[k].res, prev.reqs \o Concat([i \in 1..k |-> got[i].reqs]),
                 prev.coverages, prev.joined)
    ELSE Joined(prev, Concat([i \in 1..Len(got) |-> got[i].reqs]),
                [i \in 1..Len(got) |-> got[i].res.value],
                reduce([i \in 1..Len(got) |-> got[i].res.value]))

FetchRun(prev, got) ==
    IF ~prev.res.ok THEN prev
    ELSE JoinRun(prev, got, FirstRaise([i \in 1..Len(got) |-> got[i].res]))

\* Lines 619-640 for the first n runs.
RECURSIVE FetchRuns(_, _, _, _)
FetchRuns(n, targets, forecast_horizons, world) ==
    IF n = 0 THEN Fetched(Ok(None), <<>>, <<>>, <<>>)
    ELSE FetchRun(FetchRuns(n - 1, targets, forecast_horizons, world),
                  [i \in 1..Len(targets[n]) |->
                      CoverageOfTarget(targets[n][i], forecast_horizons, world)])

\* What the call gives: [res, cache, reqs, coverages].  coverages: the tables
\* get_coverage returned, by run.
Stopped(resolved, res, reqs) ==
    [res |-> res, cache |-> resolved.cache, reqs |-> resolved.reqs \o reqs,
     coverages |-> <<>>]

\* Lines 642-644.  pd.concat raises ValueError when there is no table.
Combined(resolved, checked, fetched) ==
    [res |-> IF ~fetched.res.ok THEN fetched.res
             ELSE IF fetched.joined = <<>> THEN Raise("NoObjectsError")
             ELSE Ok(Concat(fetched.joined)),
     cache |-> resolved.cache,
     reqs |-> resolved.reqs \o checked.reqs \o fetched.reqs,
     coverages |-> fetched.coverages]

\* Lines 613-644: checked is what validate_forecast_horizons gave.
ValidatedThenFetched(resolved, checked, world) ==
    IF ~checked.res.ok THEN Stopped(resolved, checked.res, checked.reqs)
    ELSE IF checked.res.value # <<>>
        THEN Stopped(resolved, RaiseFor("InvalidForecastHorizonsError", checked.res.value),
                     checked.reqs)
    ELSE Combined(resolved, checked,
                  FetchRuns(Len(resolved.targets), resolved.targets,
                            resolved.forecast_horizons, world))

\* coverage_ids = [cid for run_coverage in ... for cid, _, _ in run_coverage]
AllCoverageIds(targets) ==
    Concat([r \in 1..Len(targets) |->
               [i \in 1..Len(targets[r]) |-> targets[r][i].coverage_id]])

\* Lines 610-644: resolved is what the loop over runs reached.  When
\* forecast_horizons is still None there was no run, and nothing to concat.
ResolvedThenValidated(resolved, world) ==
    IF ~resolved.res.ok THEN Stopped(resolved, resolved.res, <<>>)
    ELSE IF ~resolved.forecast_horizons.given
        THEN Stopped(resolved, Raise("NoObjectsError"), <<>>)
    ELSE ValidatedThenFetched(resolved,
             validate_forecast_horizons(AllCoverageIds(resolved.targets),
                                        resolved.forecast_horizons.v, world),
             world)

\* The whole call.  answer is what the service answers to GetCapabilities if
\* it is asked.
get_combined_coverage(cache, answer, a, world) ==
    IF ArgumentCheck(a) # ""
    THEN [res |-> Raise(ArgumentCheck(a)), cache |-> cache, reqs |-> <<>>,
          coverages |-> <<>>]
    ELSE ResolvedThenValidated(ResolveRuns(Len(a.runs), cache, answer, a, world), world)

-----------------------------------------------------------------------------
(* MeteoFranceClient: the responses of the server *)

OK == 200
BAD_REQUEST == 400
UNAUTHORIZED == 401
FORBIDDEN == 403
NOT_FOUND == 404
TOO_MANY_REQUESTS == 429
INTERNAL_ERROR == 500
BAD_GATEWAY == 502
UNAVAILABLE == 503
GATEWAY_TIMEOUT == 504
HttpStatus == {OK, BAD_REQUEST, UNAUTHORIZED, FORBIDDEN, NOT_FOUND, TOO_MANY_REQUESTS,
               INTERNAL_ERROR, BAD_GATEWAY, UNAVAILABLE, GATEWAY_TIMEOUT}
INVALID_JWT_ERROR_CODE == "900901"

\* A response: its status, its Content-Type and the "code" of its JSON body.
Response(status_code, content_type, code) ==
    [status_code |-> status_code, content_type |-> content_type, code |-> code]
NoResponse == Response(0, "", "")
Responses ==
    {Response(s, "text/html", "") : s \in HttpStatus}
    \cup {Response(UNAUTHORIZED, "application/json", c) :
            c \in {INVALID_JWT_ERROR_CODE, "900902"}}

_is_token_expired(response) ==
    /\ response.status_code = UNAUTHORIZED
    /\ response.content_type = "application/json"
    /\ response.code = INVALID_JWT_ERROR_CODE

\* The greatest max_retries a caller passes, and where the count of the
\* requests of one get stops.
MaxRetries == 3
MaxSent == 4

-----------------------------------------------------------------------------
(* The operations of one Forecast object *)

\* The answer to GetCapabilities matters only when the catalog is not cached.
CapAnswersNow == IF _capabilities.built THEN {NoAnswer} ELSE CapAnswers

IndicatorInputs == {W, P, X}
RunInputs == {None, R1, R2, R3, RColon, RFeb30}
IntervalInputs == {None, P1D, PT1H, <<>>}

\* What the service may answer to DescribeCoverage.
AxesHeights == Answer([time |-> <<0, 3600>>, height |-> <<2, 10>>, pressure |-> <<>>])
AxesPressures == Answer([time |-> <<3600, 7200>>, height |-> <<>>, pressure |-> <<850>>])
AxesNone == Answer([time |-> <<>>, height |-> <<>>, pressure |-> <<>>])
AxesAnswers == {AxesHeights, AxesPressures, AxesNone} \cup Failures

\* What the service may answer to GetCoverage, decoded.
DataAnswers == {DataAtHeight, DataAtSurface, DataTwoColumns, DataNoColumn,
                Failure(MissingDataError)}

\* An answer that is never asked for is NoAnswer.  picked is any element of
\* the set of columns: set.pop() returns an arbitrary one.
CoverageEnvs ==
    {[axes |-> x, data |-> d, picked |-> c] :
        x \in AxesAnswers \ Failures, d \in {DataAtHeight}, c \in DataAtHeight.body.var}
    \cup {[axes |-> x, data |-> d, picked |-> c] :
        x \in AxesAnswers \ Failures, d \in {DataAtSurface}, c \in DataAtSurface.body.var}
    \cup {[axes |-> x, data |-> Failure(MissingDataError), picked |-> <<>>] :
        x \in AxesAnswers \ Failures}
    \cup {[axes |-> AxesNone, data |-> DataTwoColumns, picked |-> c] :
        c \in DataTwoColumns.body.var}
    \cup {[axes |-> AxesNone, data |-> DataNoColumn, picked |-> <<>>]}
    \cup {[axes |-> x, data |-> NoAnswer, picked |-> <<>>] : x \in Failures}
NoEnv == [axes |-> NoAnswer, data |-> NoAnswer, picked |-> <<>>]

\* The heights, pressures and forecast_horizons a caller passes.
HeightArgs == {NoList, List(<<2, 10>>), List(<<5>>)}
PressureArgs == {NoList, List(<<850>>), List(<<5>>)}
HorizonArgs == {NoList, List(<<>>), List(<<0, 1>>), List(<<1, 1>>), List(<<7>>)}
AxisArgs ==
    {[heights |-> h, pressures |-> NoList, forecast_horizons |-> f] :
        h \in HeightArgs, f \in HorizonArgs}
    \cup {[heights |-> h, pressures |-> q, forecast_horizons |-> NoList] :
        h \in HeightArgs, q \in PressureArgs}
NoAxisArgs == [heights |-> NoList, pressures |-> NoList, forecast_horizons |-> NoList]

W1 == CoverageIdOf(W, R1, None)
CoverageArgsOf(indicator, coverage_id, x) ==
    [indicator |-> indicator, coverage_id |-> coverage_id, run |-> None, interval |-> None,
     heights |-> x.heights, pressures |-> x.pressures,
     forecast_horizons |-> x.forecast_horizons]
\* The calls of get_coverage: of a coverage id with every choice of lists, of
\* an indicator, with neither or both, and of an unknown indicator.
CoverageCalls ==
    {[args |-> CoverageArgsOf(None, W1, x), env |-> e] : x \in AxisArgs, e \in CoverageEnvs}
    \cup {[args |-> CoverageArgsOf(i, <<>>, NoAxisArgs), env |-> e] :
            i \in {W, P}, e \in CoverageEnvs}
    \cup {[args |-> CoverageArgsOf(None, <<>>, NoAxisArgs), env |-> NoEnv],
          [args |-> CoverageArgsOf(W, W1, NoAxisArgs), env |-> NoEnv],
          [args |-> CoverageArgsOf(X, <<>>, NoAxisArgs), env |-> NoEnv]}

\* What the service may answer about the coverages of get_combined_coverage.
WorldOf(w1, w2, p1, p2, cells) == [hours |-> <<w1, w2, p1, p2>>, cells |-> cells]
SameGrid == <<Cell1, Cell2>>
SmallerGrid == <<Cell1>>
OtherOrder == <<Cell2, Cell1>>
LaterRunDiffers(cells) == WorldOf(<<1, 2>>, <<0, 2>>, <<2, 3>>, <<0, 2>>, cells)
SameHours(cells) == WorldOf(<<1, 0>>, <<1, 0>>, <<1, 0>>, <<1, 0>>, cells)
OneRunShort(cells) == WorldOf(<<0, 1>>, <<0>>, <<1>>, <<1>>, cells)
NothingCommon(cells) == WorldOf(<<0>>, <<0>>, <<1>>, <<1>>, cells)
Worlds ==
    {LaterRunDiffers(SameGrid), LaterRunDiffers(SmallerGrid), OneRunShort(SameGrid),
     NothingCommon(SameGrid)}
    \cup {SameHours(g) : g \in {SameGrid, SmallerGrid, OtherOrder, <<>>}}

CombinedArgsOf(indicator_names, runs, heights, pressures, intervals, forecast_horizons) ==
    [indicator_names |-> indicator_names, runs |-> runs, heights |-> heights,
     pressures |-> pressures, intervals |-> intervals,
     forecast_horizons |-> forecast_horizons]
\* The calls of get_combined_coverage: one or two indicators over one or two
\* runs with every choice of horizons; the empty and duplicate lists; the
\* positional lists of heights, pressures and intervals; a run given twice
\* together with lists of the wrong length.
CombinedHorizonArgs == {NoList, List(<<>>), List(<<1>>), List(<<1, 1>>), List(<<0, 2>>)}
CombinedCalls ==
    {[args |-> CombinedArgsOf(n, r, NoList, NoList, NoList, f), world |-> w] :
        n \in {<<W>>, <<W, P>>, <<W, W>>}, r \in {<<R1>>, <<R1, R2>>, <<R2, R1>>},
        f \in CombinedHorizonArgs, w \in Worlds}
    \cup {[args |-> CombinedArgsOf(n, r, NoList, NoList, NoList, f),
           world |-> SameHours(SameGrid)] :
            n \in {<<>>, <<W>>}, r \in {<<>>, <<R1, R1>>, <<R1>>, <<R3>>},
            f \in {NoList, List(<<1>>)}}
    \cup {[args |-> CombinedArgsOf(<<W, P>>, <<R1>>, h, q, v, NoList),
           world |-> SameHours(SameGrid)] :
            h \in {NoList, List(<<10, Absent>>), List(<<2, 5>>), List(<<2>>), List(<<>>)},
            q \in {NoList, List(<<850>>), List(<<Absent, Absent>>)},
            v \in {NoList, List(<<None, PT1H>>), List(<<PT1H, None>>),
                   List(<<None>>), List(<<>>)}}
    \cup {[args |-> CombinedArgsOf(<<W, P>>, <<R1, R1>>, h, NoList, v, NoList),
           world |-> SameHours(SameGrid)] :
            h \in {NoList, List(<<2>>)}, v \in {NoList, List(<<None>>)}}

NoCall == [op |-> "none"]

\* Forecast.__init__ on a client built from an api key or a token, and no
\* get of the client under way.
Init ==
    /\ _capabilities = NotBuilt
    /\ call = NoCall
    /\ outcome = Ok(None)
    /\ requests = <<>>
    /\ pc = "idle"
    /\ attempt = 0
    /\ max_retries = 0
    /\ resp = NoResponse
    /\ sent = 0
    /\ result = ""
    /\ _token_expired = FALSE
    /\ _application_id = FALSE

\* The caller takes the result; the object is ready for the next call.
Return ==
    /\ call # NoCall
    /\ call' = NoCall
    /\ outcome' = Ok(None)
    /\ requests' = <<>>
    /\ UNCHANGED _capabilities
    /\ UNCHANGED clientVars

GetCapabilities ==
    /\ call = NoCall
    /\ UNCHANGED clientVars
    /\ \E answer \in CapAnswersNow :
        \E c \in {capabilities(_capabilities, answer)} :
            /\ call' = [op |-> "get_capabilities", answer |-> answer]
            /\ _capabilities' = c.cache
            /\ outcome' = c.res
            /\ requests' = c.reqs

ResolveCall ==
    /\ call = NoCall
    /\ UNCHANGED clientVars
    /\ \E answer \in CapAnswersNow :
        \E c \in {capabilities(_capabilities, answer)} :
            \E indicator \in IndicatorInputs, run \in RunInputs, interval \in IntervalInputs :
                \E r \in {Resolve(c, indicator, run, interval)} :
                    /\ call' = [op |-> "resolve", answer |-> answer, indicator |-> indicator,
                                run |-> run, interval |-> interval]
                    /\ _capabilities' = r.cache
                    /\ outcome' = r.res
                    /\ requests' = r.reqs

GetCoverageCall ==
    /\ call = NoCall
    /\ UNCHANGED clientVars
    /\ \E k \in CoverageCalls :
        \E answer \in (IF Truthy(k.args.indicator) /\ ~Truthy(k.args.coverage_id)
                        THEN CapAnswersNow ELSE {NoAnswer}) :
            \E r \in {get_coverage(_capabilities, capabilities(_capabilities, answer),
                                   k.args, k.env)} :
                /\ call' = [op |-> "get_coverage", answer |-> answer,
                            args |-> k.args, env |-> k.env]
                /\ _capabilities' = r.cache
                /\ outcome' = r.res
                /\ requests' = r.reqs

GetCombinedCoverageCall ==
    /\ call = NoCall
    /\ UNCHANGED clientVars
    /\ \E k \in CombinedCalls :
        \E answer \in CapAnswersNow :
            \E r \in {get_combined_coverage(_capabilities, answer, k.args, k.world)} :
                /\ call' = [op |-> "get_combined_coverage", answer |-> answer,
                            args |-> k.args, world |-> k.world,
                            coverages |-> r.coverages]
                /\ _capabilities' = r.cache
                /\ outcome' = r.res
                /\ requests' = r.reqs

\* The calls of find_common_forecast_horizons: the lists of at most MaxIds
\* coverage ids of the service, repeated ids included, over what the service
\* may answer about them.
MaxIds == 2
CoverageIdLists == UNION {[1..n -> ServerIds] : n \in 0..MaxIds}
TwoListsWorld == WorldOf(<<0, 1, 2, 3>>, <<1, 2, 4>>, <<3, 1>>, <<4, 2, 1>>, SameGrid)

FindCommonCall ==
    /\ call = NoCall
    /\ UNCHANGED clientVars
    /\ \E ids \in CoverageIdLists, world \in Worlds \cup {TwoListsWorld} :
        \E r \in {find_common_forecast_horizons(ids, world)} :
            /\ call' = [op |-> "find_common_forecast_horizons",
                        list_coverage_id |-> ids, world |-> world]
            /\ outcome' = r.res
            /\ requests' = r.reqs
            /\ UNCHANGED _capabilities

Next ==
    \/ GetCombinedCoverageCall
    \/ GetCoverageCall
    \/ FindCommonCall
    \/ GetCapabilities
    \/ ResolveCall
    \/ Return

Spec == Init /\ [][Next]_vars

-----------------------------------------------------------------------------
(* MeteoFranceClient.get, one turn of its while loop at a time *)

\* MeteoFranceClient.__init__, with or without an application id.
ClientInit ==
    /\ _capabilities = NotBuilt
    /\ call = NoCall
    /\ outcome = Ok(None)
    /\ requests = <<>>
    /\ pc = "idle"
    /\ attempt = 0
    /\ max_retries = 0
    /\ resp = NoResponse
    /\ sent = 0
    /\ result = ""
    /\ _token_expired = FALSE
    /\ _application_id \in BOOLEAN

\* The caller calls get(path, max_retries = n).
ClientGet ==
    /\ pc = "idle"
    /\ \E n \in 0..MaxRetries : max_retries' = n
    /\ pc' = "loop"
    /\ attempt' = 0
    /\ sent' = 0
    /\ resp' = NoResponse
    /\ result' = ""
    /\ UNCHANGED <<_token_expired, _application_id>>
    /\ UNCHANGED forecastVars

\* while attempt < max_retries: one request, and the branch its response
\* takes.  A response that takes no branch (401 without an expired token,
\* 429, 500) goes back to the while with attempt as it was.
Iterate ==
    /\ pc = "loop"
    /\ attempt < max_retries
    /\ \E r \in Responses :
        /\ resp' = r
        /\ sent' = IF sent < MaxSent THEN sent + 1 ELSE sent
        /\ _token_expired' = (_token_expired \/ _is_token_expired(r))
        /\ IF r.status_code = OK
               THEN pc' = "done" /\ result' = "response" /\ UNCHANGED attempt
           ELSE IF _is_token_expired(r)
               THEN IF _application_id
                    THEN UNCHANGED <<pc, result, attempt>>
                    ELSE pc' = "done" /\ result' = "ValueError" /\ UNCHANGED attempt
           ELSE IF r.status_code \in {FORBIDDEN, BAD_REQUEST}
               THEN pc' = "done" /\ result' = GenericMeteofranceApiError /\ UNCHANGED attempt
           ELSE IF r.status_code = NOT_FOUND
               THEN pc' = "done" /\ result' = MissingDataError /\ UNCHANGED attempt
           ELSE IF r.status_code \in {BAD_GATEWAY, UNAVAILABLE, GATEWAY_TIMEOUT}
               THEN attempt' = attempt + 1 /\ UNCHANGED <<pc, result>>
           ELSE UNCHANGED <<pc, result, attempt>>
    /\ UNCHANGED <<max_retries, _application_id>>
    /\ UNCHANGED forecastVars

\* Line 150: the while ends.
GiveUp ==
    /\ pc = "loop"
    /\ attempt >= max_retries
    /\ pc' = "done"
    /\ result' = GenericMeteofranceApiError
    /\ UNCHANGED <<attempt, max_retries, resp, sent, _token_expired, _application_id>>
    /\ UNCHANGED forecastVars

\* The caller takes what get returned or raised.
ClientReturn ==
    /\ pc = "done"
    /\ pc' = "idle"
    /\ UNCHANGED <<attempt, max_retries, resp, sent, result, _token_expired,
                   _application_id>>
    /\ UNCHANGED forecastVars

ClientNext ==
    \/ ClientGet
    \/ Iterate
    \/ GiveUp
    \/ ClientReturn

\* get keeps running once called: its loop takes its next turn.
ClientSpec ==
    /\ ClientInit
    /\ [][ClientNext]_vars
    /\ WF_vars(Iterate) /\ WF_vars(GiveUp)

-----------------------------------------------------------------------------
(* The Forecast on its client: a get of the client serves one request of a
   Forecast operation, which receives what that get returned or raised *)

\* response = self._client.get(url, params=params): the response with its
\* decoded body, or the error get raised.
AnswerOfGet(body) == IF result = "response" THEN Answer(body) ELSE Failure(result)

\* The get is called for a request of the Forecast.
GetOnRequest ==
    /\ call = NoCall
    /\ ClientGet

\* The get served the GetCapabilities request of the first access to the
\* catalog.
BuildCatalogOnGet ==
    /\ pc = "done"
    /\ call = NoCall
    /\ ~_capabilities.built
    /\ \E doc \in (IF result = "response" THEN Catalogs ELSE {<<>>}) :
        \E c \in {capabilities(_capabilities, AnswerOfGet(doc))} :
            /\ call' = [op |-> "get_capabilities", answer |-> AnswerOfGet(doc)]
            /\ _capabilities' = c.cache
            /\ outcome' = c.res
            /\ requests' = c.reqs
    /\ pc' = "idle"
    /\ UNCHANGED <<attempt, max_retries, resp, sent, result, _token_expired,
                   _application_id>>

\* What the service answers during a get_coverage of which the get served
\* the DescribeCoverage request, or the GetCoverage request.
EnvsOnGet ==
    IF result = "response"
    THEN {e \in CoverageEnvs : e.axes.error = "" /\ e.data.error = ""}
    ELSE {[axes |-> Failure(result), data |-> NoAnswer, picked |-> <<>>]}
         \cup {[axes |-> x, data |-> Failure(result), picked |-> <<>>] :
                 x \in AxesAnswers \ Failures}

GetCoverageOnGet ==
    /\ pc = "done"
    /\ call = NoCall
    /\ \E e \in EnvsOnGet :
        \E r \in {get_coverage(_capabilities, capabilities(_capabilities, NoAnswer),
                               CoverageArgsOf(None, W1, NoAxisArgs), e)} :
            /\ call' = [op |-> "get_coverage", answer |-> NoAnswer,
                        args |-> CoverageArgsOf(None, W1, NoAxisArgs), env |-> e]
            /\ _capabilities' = r.cache
            /\ outcome' = r.res
            /\ requests' = r.reqs
    /\ pc' = "idle"
    /\ UNCHANGED <<attempt, max_retries, resp, sent, result, _token_expired,
                   _application_id>>

SystemNext ==
    \/ GetOnRequest
    \/ Iterate
    \/ GiveUp
    \/ BuildCatalogOnGet
    \/ GetCoverageOnGet
    \/ Return

SystemSpec == ClientInit /\ [][SystemNext]_vars

-----------------------------------------------------------------------------
(* Properties of resolve (_get_coverage_id) *)

\* The characters of the model in ASCII order, for the order of str.
Ascii == <<"-", ".", "0", "1", "2", "3", "4", "5", "6", "7", "8", "9", ":",
           "D", "H", "P", "S", "T", "W", "X", "Z", "_">>
Ord(c) == CHOOSE i \in 1..Len(Ascii) : Ascii[i] = c
RECURSIVE StrLeq(_, _)
StrLeq(a, b) ==
    IF a = <<>> THEN TRUE
    ELSE IF b = <<>> THEN FALSE
    ELSE IF a[1] = b[1] THEN StrLeq(Tail(a), Tail(b))
    ELSE Ord(a[1]) < Ord(b[1])

IsPrefix(p, s) == Len(p) <= Len(s) /\ SubSeq(s, 1, Len(p)) = p

Resolved == call.op = "resolve" /\ outcome.ok
\* The catalog the call read: it is cached whenever the call got that far.
CatalogRows(indicator) == RowsOf(_capabilities.rows, indicator)
CatalogRuns(indicator) == {r.run : r \in Range(CatalogRows(indicator))}
CatalogIntervals(indicator) == {r.interval : r \in Range(CatalogRows(indicator))}
LatestRun(indicator) ==
    CHOOSE r \in CatalogRuns(indicator) : \A q \in CatalogRuns(indicator) : StrLeq(q, r)

\* C1: resolve with run = none on a known indicator uses the latest run of
\* that indicator: the id it returns starts with {indicator}___{the
\* lexicographic maximum of the runs of the indicator's catalog entries}.
C1_DefaultRunIsLatest ==
    (Resolved /\ call.run = None)
        => IsPrefix(call.indicator \o Sep3 \o LatestRun(call.indicator), outcome.value)

\* The run the interval policy is reached with: the given run, or the run of
\* the indicator's first catalog entry.
RunReachesIntervalPolicy ==
    LET runs == CatalogRuns(call.indicator)
    IN  IF call.run = None THEN CatalogRows(call.indicator) # <<>>
        ELSE strptime(call.run) /\ call.run \in runs
InstantWithInterval ==
    /\ call.op = "resolve"
    /\ _capabilities.built
    /\ call.indicator \in INSTANT_INDICATORS \cap INDICATORS
    /\ call.interval # None

\* C2 as stated: a non-none interval on an instant indicator raises
\* UnexpectedIntervalError whatever the run is.
C2_UnexpectedIntervalForEveryRun ==
    InstantWithInterval => outcome = Raise("UnexpectedIntervalError")

\* C2 amended: a non-none interval on an instant indicator raises
\* UnexpectedIntervalError when the run (given, or defaulted from the catalog)
\* is well formed and among the catalog's runs of the indicator; the run is
\* checked first, so a malformed run raises InvalidRunFormatError and a well
\* formed run the catalog does not list raises InvalidRunError.
C2_UnexpectedIntervalAfterRunChecks ==
    InstantWithInterval =>
        /\ RunReachesIntervalPolicy => outcome = Raise("UnexpectedIntervalError")
        /\ (call.run # None /\ ~strptime(call.run))
               => outcome = Raise("InvalidRunFormatError")
        /\ (call.run # None /\ strptime(call.run)
                /\ call.run \notin CatalogRuns(call.indicator))
               => outcome = Raise("InvalidRunError")

C2_Witness ==
    /\ InstantWithInterval /\ call.run = R2 /\ call.interval = P1D
    /\ outcome = Raise("UnexpectedIntervalError")

\* C3: a successful resolve returns exactly {indicator}___{run'} for an
\* instant indicator and {indicator}___{run'}_{interval'} otherwise, run'
\* the given run or the defaulted one (a run of the indicator's entries),
\* interval' the given interval or P1D when it is none.
C3_IdFormat ==
    Resolved =>
        \E run1 \in (IF call.run = None THEN CatalogRuns(call.indicator) ELSE {call.run}) :
            outcome.value =
                IF call.indicator \in INSTANT_INDICATORS
                THEN call.indicator \o <<"_", "_", "_">> \o run1
                ELSE call.indicator \o <<"_", "_", "_">> \o run1 \o <<"_">>
                         \o (IF call.interval = None THEN <<"P", "1", "D">> ELSE call.interval)

C3_Witness ==
    /\ Resolved /\ call.indicator = P /\ call.interval = None /\ call.run = None
    /\ SubSeq(outcome.value, Len(outcome.value) - 3, Len(outcome.value))
           = <<"_", "P", "1", "D">>

\* The catalog's splitting rule applied to the id resolve returned.
SplitBack == CapabilityRow(outcome.value)
RunGivenBack ==
    IF call.run = None THEN SplitBack.run \in CatalogRuns(call.indicator)
    ELSE SplitBack.run = call.run

\* C4 as stated: splitting the returned id gives back the indicator, the run
\* and the interval resolve used, none included.
C4_RoundTrip ==
    Resolved =>
        /\ RowBuilds(outcome.value)
        /\ SplitBack.indicator = call.indicator
        /\ RunGivenBack
        /\ SplitBack.interval = IntervalUsed(call.indicator, call.interval)

\* C4 amended: splitting the returned id gives back the indicator, the run
\* and, when resolve used an interval, that interval; when the interval is
\* none (instant indicator) the split gives the empty string, not none.
C4_RoundTripEmptyForNone ==
    Resolved =>
        /\ RowBuilds(outcome.value)
        /\ SplitBack.indicator = call.indicator
        /\ RunGivenBack
        /\ SplitBack.interval =
               IF call.indicator \in INSTANT_INDICATORS THEN <<>>
               ELSE IF call.interval = None THEN P1D ELSE call.interval

C4_Witness ==
    /\ Resolved /\ call.indicator = P /\ call.interval = PT1H /\ call.run = R1
    /\ SplitBack.interval = PT1H

-----------------------------------------------------------------------------
(* Properties of get_coverage *)

GotCoverage == call.op = "get_coverage" /\ outcome.ok
KeyOf(row) == <<row.latitude, row.longitude, row.run, row.forecast_horizon>>
Fetches == SelectSeq(requests, LAMBDA r : r.kind = "GetCoverage")

\* C5: the table of a successful get_coverage has no two rows with the same
\* (latitude, longitude, run, forecast_horizon).
C5_NoDuplicateKeys ==
    GotCoverage =>
        \A i, j \in 1..Len(outcome.value) :
            KeyOf(outcome.value[i]) = KeyOf(outcome.value[j]) => i = j

\* get_coverage got as far as the validation of the lists: the target was
\* resolved and the service described it.
Described ==
    /\ call.op = "get_coverage"
    /\ call.env.axes.error = ""
    /\ \E i \in 1..Len(requests) : requests[i].kind = "DescribeCoverage"
\* The lists given and the available values of the three axes.
Given == [heights           |-> call.args.heights,
          pressures         |-> call.args.pressures,
          forecast_horizons |-> call.args.forecast_horizons]
Available == [heights           |-> call.env.axes.body.height,
              pressures         |-> call.env.axes.body.pressure,
              forecast_horizons |-> [i \in 1..Len(call.env.axes.body.time) |->
                                        call.env.axes.body.time[i] \div 3600]]
Params == {"heights", "pressures", "forecast_horizons"}
Offending == {p \in Params : /\ Given[p].given /\ Given[p].v # <<>>
                             /\ \E i \in 1..Len(Given[p].v) :
                                    \A j \in 1..Len(Available[p]) :
                                        Given[p].v[i] # Available[p][j]}
Defaulted == {p \in Params : ~Given[p].given \/ Given[p].v = <<>>}
\* What a raster request carries for an axis: the value in the axis's unit,
\* Absent when the fetcher was passed none.
Carried(r) == [heights |-> r.height, pressures |-> r.pressure,
               forecast_horizons |-> IF r.time % 3600 = 0 THEN r.time \div 3600 ELSE r.time]

\* C10: an offending list makes the call raise InvalidAxisValueError naming
\* an offending parameter without any raster fetch; for a list that is none
\* or empty every fetch uses the first available value of the axis, and no
\* value (the marker is passed as none) when the axis is empty.
C10_InvalidRaisesDefaultIsFirstOrNone ==
    Described =>
        /\ Offending # {} =>
               /\ \E p \in Offending : outcome = [ok |-> FALSE, error |-> "InvalidAxisValueError:" \o p]
               /\ Fetches = <<>>
        /\ Offending = {} =>
               \A p \in Defaulted : \A k \in 1..Len(Fetches) :
                   IF Available[p] # <<>>
                   THEN Carried(Fetches[k])[p] = Available[p][1]
                   ELSE Carried(Fetches[k])[p] = Absent

-----------------------------------------------------------------------------
(* Properties of get_combined_coverage *)

CombinedCall == call.op = "get_combined_coverage"
Names == call.args.indicator_names
Runs == call.args.runs
KeySet(table) == {KeyOf(table[i]) : i \in 1..Len(table)}
HasDuplicateKey(table) == Cardinality(KeySet(table)) # Len(table)
\* The join of the tables of one run would duplicate rows, or drop rows.
WouldDuplicate(tables) == \E i \in 1..Len(tables) : HasDuplicateKey(tables[i])
WouldDrop(tables) == \E i, j \in 1..Len(tables) : KeySet(tables[i]) # KeySet(tables[j])
RECURSIVE SumOfFirstLens(_)
SumOfFirstLens(runs) ==
    IF runs = <<>> THEN 0 ELSE Len(Head(runs)[1]) + SumOfFirstLens(Tail(runs))

\* C6: when the join of the indicator tables of a run would duplicate or
\* drop rows the call raises; when the tables of every run have the same
\* unique keys, the result has as many rows as each input, run by run.
\* call.coverages holds the tables get_coverage returned, by run.
C6_JoinNeitherDuplicatesNorDrops ==
    CombinedCall =>
        /\ (\E r \in 1..Len(call.coverages) :
               /\ Len(call.coverages[r]) >= 2
               /\ WouldDuplicate(call.coverages[r]) \/ WouldDrop(call.coverages[r]))
           => ~outcome.ok
        /\ (/\ outcome.ok
            /\ \A r \in 1..Len(call.coverages) :
                   ~WouldDuplicate(call.coverages[r]) /\ ~WouldDrop(call.coverages[r]))
           => Len(outcome.value) = SumOfFirstLens(call.coverages)

\* The arguments pass the checks of lines 573-592.
ArgumentsPass ==
    /\ \A r, q \in 1..Len(Runs) : Runs[r] = Runs[q] => r = q
    /\ call.args.heights.given => Len(call.args.heights.v) = Len(Names)
    /\ call.args.pressures.given => Len(call.args.pressures.v) = Len(Names)
    /\ (call.args.intervals.given /\ call.args.intervals.v # <<>>)
           => Len(call.args.intervals.v) = Len(Names)
IntervalFor(i) ==
    IF call.args.intervals.given /\ call.args.intervals.v # <<>>
    THEN call.args.intervals.v[i] ELSE None
\* Every (indicator, run, interval) of the call resolves against the catalog.
AllResolve ==
    /\ _capabilities.built
    /\ \A r \in 1..Len(Runs), i \in 1..Len(Names) :
        /\ Names[i] \in INDICATORS
        /\ strptime(Runs[r]) /\ Runs[r] \in CatalogRuns(Names[i])
        /\ Names[i] \in INSTANT_INDICATORS => IntervalFor(i) = None
        /\ (Names[i] \notin INSTANT_INDICATORS /\ IntervalFor(i) # None)
               => IntervalFor(i) \in CatalogIntervals(Names[i])
IdFor(r, i) ==
    Names[i] \o <<"_", "_", "_">> \o Runs[r]
        \o (IF Names[i] \in INSTANT_INDICATORS THEN <<>>
            ELSE <<"_">> \o (IF IntervalFor(i) = None THEN <<"P", "1", "D">>
                             ELSE IntervalFor(i)))
\* The horizons the service lists for an indicator and a run.
HoursFor(r, i) ==
    {h \in 0..3 : \E k \in 1..Len(HoursIn(call.world, [indicator |-> Names[i], run |-> Runs[r]])) :
        HoursIn(call.world, [indicator |-> Names[i], run |-> Runs[r]])[k] = h}
CommonHours(r) == {h \in 0..3 : \A i \in 1..Len(Names) : h \in HoursFor(r, i)}
Least(S) == CHOOSE m \in S : \A x \in S : m <= x
\* The call has horizons to validate: the given ones, or the default.
HorizonsChosen ==
    /\ Runs # <<>> /\ Names # <<>>
    /\ ~call.args.forecast_horizons.given => CommonHours(1) # {}
HorizonsUsed ==
    IF call.args.forecast_horizons.given
    THEN {call.args.forecast_horizons.v[k] : k \in 1..Len(call.args.forecast_horizons.v)}
    ELSE {Least(CommonHours(1))}
InvalidTargets ==
    {t \in (1..Len(Runs)) \X (1..Len(Names)) : ~(HorizonsUsed \subseteq HoursFor(t[1], t[2]))}

\* C8: when the horizons to use (given or defaulted) are not all available
\* for some resolved coverage id of some run, the call raises
\* InvalidForecastHorizonsError listing exactly those ids, and no raster
\* fetch request has been issued.
C8_InvalidHorizonsRaiseBeforeFetch ==
    (CombinedCall /\ ArgumentsPass /\ AllResolve /\ HorizonsChosen /\ InvalidTargets # {})
        => /\ ~outcome.ok
           /\ outcome.error = "InvalidForecastHorizonsError"
           /\ {outcome.coverage_ids[k] : k \in 1..Len(outcome.coverage_ids)}
                  = {IdFor(t[1], t[2]) : t \in InvalidTargets}
           /\ Fetches = <<>>

\* Two indicators over two runs, the default horizon of the first run missing
\* for one coverage of the second run only.
C8_Witness ==
    /\ CombinedCall /\ ArgumentsPass /\ AllResolve /\ HorizonsChosen
    /\ Names = <<W, P>> /\ Runs = <<R1, R2>> /\ ~call.args.forecast_horizons.given
    /\ InvalidTargets = {<<2, 1>>}
    /\ ~outcome.ok /\ outcome.error = "InvalidForecastHorizonsError"
    /\ outcome.coverage_ids = <<CoverageIdOf(W, R2, None)>>

\* C9: with forecast_horizons = none, every raster fetch of the call, for
\* every run, asks for the smallest horizon common to the coverages of the
\* first run of runs.
C9_DefaultHorizonFromFirstRun ==
    (CombinedCall /\ ~call.args.forecast_horizons.given)
        => \A k \in 1..Len(Fetches) : Fetches[k].time = 3600 * Least(CommonHours(1))

\* Both runs are fetched with the first run's default although the second
\* run's own smallest common horizon is smaller.
C9_Witness ==
    /\ CombinedCall /\ ~call.args.forecast_horizons.given /\ outcome.ok
    /\ Len(Runs) = 2 /\ Len(Names) = 2
    /\ Least(CommonHours(2)) < Least(CommonHours(1))
    /\ \E k \in 1..Len(Fetches) :
          /\ IsPrefix(Names[1] \o Sep3 \o Runs[2], Fetches[k].coverageid)
          /\ Fetches[k].time = 3600 * Least(CommonHours(1))

-----------------------------------------------------------------------------
(* Properties of MeteoFranceClient.get *)

\* C7: whatever statuses the server returns, a get that was called ends: it
\* returns the 200 response or raises.
C7_GetTerminates == (pc = "loop") ~> (pc = "done")

-----------------------------------------------------------------------------
(* The fetches of get_coverage *)

\* The list get_coverage iterates over for an axis: the given list, or the
\* first available value, or the marker when the axis has no value.
UsedList(p) ==
    IF Given[p].given /\ Given[p].v # <<>> THEN Given[p].v
    ELSE IF Available[p] # <<>> THEN <<Available[p][1]>>
    ELSE <<-1>>
LevelCarried(v) == IF v = -1 THEN Absent ELSE v
EndsWith(s, e) == Len(e) <= Len(s) /\ SubSeq(s, Len(s) - Len(e) + 1, Len(s)) = e
\* The rows one fetch contributes: one per grid cell of the decoded file.
BlockLen == Len(call.env.data.body.cells)

-----------------------------------------------------------------------------
(* Properties of the catalog (Forecast.capabilities) *)

CapRequests == SelectSeq(requests, LAMBDA r : r.kind = "GetCapabilities")
\* The call of this state reads self.capabilities.
AccessesCatalog ==
    \/ call.op \in {"get_capabilities", "resolve"}
    \/ /\ call.op = "get_coverage"
       /\ Truthy(call.args.indicator) /\ ~Truthy(call.args.coverage_id)
    \/ /\ call.op = "get_combined_coverage"
       /\ ArgumentsPass /\ Names # <<>> /\ Runs # <<>>
\* The call of this state sent a capabilities request and the client
\* returned its response.
CapSucceeded == CapRequests # <<>> /\ call.answer.error = ""
\* A call that does not read the catalog sends no capabilities request; the
\* first call that reads it sends one, before every other request; with the
\* catalog cached no call sends one and the cache stays as it is, and
\* get_capabilities returns it.
LazyThenCached ==
    /\ (call' # NoCall /\ ~AccessesCatalog') => CapRequests' = <<>>
    /\ (~_capabilities.built /\ AccessesCatalog')
           => (Len(CapRequests') = 1 /\ requests'[1] = CapabilitiesRequest)
    /\ _capabilities.built => (CapRequests' = <<>> /\ _capabilities' = _capabilities)
    /\ (_capabilities.built /\ call'.op = "get_capabilities")
           => outcome' = Ok(_capabilities.rows)

\* C12 as stated: no capabilities request before the first access to the
\* catalog, and once a capabilities request has succeeded the catalog is
\* cached, so that no later call sends a capabilities request and every
\* later access returns the same catalog.
C12_CachedOnceRequestSucceeded ==
    [][LazyThenCached /\ (CapSucceeded' => _capabilities'.built)]_vars

\* C12 amended: no capabilities request before the first access; the catalog
\* is cached once a capabilities request has succeeded and its document has
\* been made into a catalog, after which no call sends a capabilities request
\* and every access returns that catalog; a document that lists no coverage
\* makes the access raise and caches nothing.
C12_CachedOnceCatalogBuilt ==
    [][/\ LazyThenCached
       /\ CapSucceeded' =>
            /\ _capabilities'.built <=> call'.answer.body # <<>>
            /\ _capabilities'.built =>
                 _capabilities'.rows = [i \in 1..Len(call'.answer.body) |->
                                           CapabilityRow(call'.answer.body[i])]]_vars

\* A second access finds the catalog cached and sends nothing.
C12_Witness ==
    /\ call.op = "get_capabilities" /\ _capabilities.built
    /\ requests = <<>> /\ outcome = Ok(_capabilities.rows)

\* The call resolves an indicator that is not in INDICATORS.
UnknownIndicatorCall ==
    \/ call.op = "resolve" /\ call.indicator \notin INDICATORS
    \/ /\ call.op = "get_coverage"
       /\ Truthy(call.args.indicator) /\ ~Truthy(call.args.coverage_id)
       /\ call.args.indicator \notin INDICATORS

\* C13: resolve, and get_coverage given an indicator, called with an
\* indicator outside the static list raise UnknownIndicatorError and send no
\* request at all, whether the catalog is built or not.
C13_UnknownIndicatorBeforeNetwork ==
    UnknownIndicatorCall => (outcome = Raise("UnknownIndicatorError") /\ requests = <<>>)

-----------------------------------------------------------------------------
(* Properties of the argument checks of get_combined_coverage *)

DistinctRuns == \A r, q \in 1..Len(Runs) : Runs[r] = Runs[q] => r = q
\* A positional list that is given (not none) with another length than
\* indicator_names.
WrongLength(list) == list.given /\ Len(list.v) # Len(Names)

\* C14: with distinct runs, a heights, pressures or intervals list given
\* with a length other than len(indicator_names), the empty list included,
\* makes the call raise LengthMismatchError.
C14_LengthMismatchForEachList ==
    (/\ CombinedCall
     /\ DistinctRuns
     /\ \/ WrongLength(call.args.heights)
        \/ WrongLength(call.args.pressures)
        \/ WrongLength(call.args.intervals))
        => outcome = Raise("LengthMismatchError")

\* C15: a runs list that holds the same run twice makes the call raise
\* DuplicateRunError, whatever the other arguments are, and the call sends no
\* request and leaves the catalog unbuilt if it was.
C15_DuplicateRunBeforeRequests ==
    (CombinedCall /\ ~DistinctRuns)
        => /\ outcome = Raise("DuplicateRunError")
           /\ requests = <<>>
           /\ call.coverages = <<>>

\* The same run twice, together with a heights list of the wrong length and
\* a catalog that is not built: the duplicate is what is reported.
C15_Witness ==
    /\ CombinedCall /\ Runs = <<R1, R1>> /\ Names = <<W, P>>
    /\ WrongLength(call.args.heights)
    /\ ~_capabilities.built
    /\ outcome = Raise("DuplicateRunError") /\ requests = <<>>

-----------------------------------------------------------------------------
(* Properties of find_common_forecast_horizons *)

FoundCommon == call.op = "find_common_forecast_horizons"
\* The horizons the service lists for a coverage id.
HoursOfId(coverage_id) ==
    LET hours == HoursIn(call.world, CapabilityRow(coverage_id))
    IN  {hours[k] : k \in 1..Len(hours)}

\* C16: for a non-empty list of coverage ids, find_common_forecast_horizons
\* returns, in strictly ascending order, exactly the horizons that the
\* service lists for every coverage id of the list.
C16_CommonIsSortedIntersection ==
    (FoundCommon /\ call.list_coverage_id # <<>>) =>
        /\ outcome.ok
        /\ \A i, j \in 1..Len(outcome.value) : i < j => outcome.value[i] < outcome.value[j]
        /\ {outcome.value[k] : k \in 1..Len(outcome.value)}
               = {h \in HoursOfId(call.list_coverage_id[1]) :
                     \A i \in 1..Len(call.list_coverage_id) :
                         h \in HoursOfId(call.list_coverage_id[i])}

\* [0, 1, 2, 3] and [1, 2, 4] give [1, 2].
C16_Witness ==
    /\ FoundCommon
    /\ call.list_coverage_id = <<CoverageIdOf(W, R1, None), CoverageIdOf(W, R2, None)>>
    /\ HoursOfId(call.list_coverage_id[1]) = {0, 1, 2, 3}
    /\ HoursOfId(call.list_coverage_id[2]) = {1, 2, 4}
    /\ outcome = Ok(<<1, 2>>)

-----------------------------------------------------------------------------
(* Properties of the single fetch (_get_data_single_forecast) *)

\* get_coverage reached a raster fetch, and the client returned its file.
FetchDecoded ==
    /\ call.op = "get_coverage"
    /\ Fetches # <<>>
    /\ call.env.data.error = ""
\* The columns of the decoded table outside the known ones.
MeasureColumns == call.env.data.body.var

\* C18: when the decoded table has no column, or more than one, outside the
\* known ones, the fetch raises; so two fetches of the same request and the
\* same decoded table never differ in the name of the measurement column.
C18_ExactlyOneMeasureColumn ==
    (FetchDecoded /\ Cardinality(MeasureColumns) # 1) => ~outcome.ok

\* C19: the coverage id a successful resolve returns is the id of an entry
\* of the catalog.
C19_ResolvedIdIsCatalogEntry ==
    Resolved => \E i \in 1..Len(_capabilities.rows) :
                    _capabilities.rows[i].id = outcome.value

-----------------------------------------------------------------------------
(* Properties of the not-found error *)

\* C17: a 404 response ends the get at once with MissingDataError, and the
\* operation of the Forecast whose request that get served (the catalog
\* build, the description, the raster fetch) raises MissingDataError too,
\* that request being its last one and sent only once.
C17_NotFoundReachesCaller ==
    /\ resp.status_code = NOT_FOUND => (pc # "loop" /\ result = MissingDataError)
    /\ (call # NoCall /\ result = MissingDataError) =>
           /\ outcome = Raise(MissingDataError)
           /\ requests # <<>>
           /\ \A i \in 1..(Len(requests) - 1) :
                  requests[i].kind # requests[Len(requests)].kind

\* A 404 after one retry of a 503, on the raster request of a get_coverage.
C17_Witness ==
    /\ resp.status_code = NOT_FOUND /\ attempt = 1 /\ sent = 2
    /\ call.op = "get_coverage"
    /\ Len(requests) = 2 /\ requests[2].kind = "GetCoverage"
    /\ outcome = Raise(MissingDataError)

====
